---- MODULE Spec2Model ----
(***************************************************************************)
(* WebQSPDataset (src/torch_geometric/datasets/web_qsp_dataset.py).        *)
(* retrieval_via_pcst: prize assignment, virtual-node reduction, the call  *)
(* of the external PCST solver and the reconstruction of the pruned        *)
(* subgraph.  __init__: the test of the optional imports.  process(): the  *)
(* graph builder, the embedding of the node and edge texts and the call of *)
(* retrieval_via_pcst.                                                     *)
(*                                                                         *)
(* Conventions.  Node ids and edge indices are 0-based as in the source; a *)
(* Python list or tensor of length n is a function with domain 0..n-1.  A  *)
(* float is an exact rational <<p, q>> in lowest terms with q > 0          *)
(* (rounding is not modelled).  The embeddings enter through their cosine  *)
(* similarity to the query, which is chosen where the source computes it;  *)
(* as in the source, n_prizes and e_prizes first hold the similarities and *)
(* are then overwritten with the prizes.  Row i of textual_nodes is        *)
(* (node_id = i) and row i of textual_edges is (src, edge_attr, dst) of    *)
(* edge i, as process() builds them; the attribute and the feature row of  *)
(* node i or edge i are represented by i.  pcst_fast is external: it may   *)
(* return any tree of the instance it is given, and its arrays are read in *)
(* ascending order.  An embedding enters the extraction through its number *)
(* of rows; a Python exception that ends a call is the outcome             *)
(* out = [returned |-> FALSE, raised |-> its name].                        *)
(***************************************************************************)
EXTENDS Integers, Sequences, FiniteSets

\* ------------------------------------------------------------------ bounds
MaxNodes == 3
MaxEdges == 2
MaxTopk == 2
MaxTopkE == 2
BigTie == 201
MaxTriples == 2

\* --------------------------------------------------------- exact rationals
Abs(x) == IF x < 0 THEN -x ELSE x

RECURSIVE GCD(_, _)
GCD(a, b) == IF b = 0 THEN a ELSE GCD(b, a % b)

Rat(p, q) ==
  LET g == GCD(Abs(p), Abs(q))
      s == IF q < 0 THEN -1 ELSE 1
  IN <<(s * p) \div g, (s * q) \div g>>

RLess(a, b) == a[1] * b[2] < b[1] * a[2]
RLeq(a, b) == a[1] * b[2] <= b[1] * a[2]
RSub(a, b) == Rat(a[1] * b[2] - b[1] * a[2], a[2] * b[2])
RMin(a, b) == IF RLess(b, a) THEN b ELSE a
Zero == Rat(0, 1)

\* c = 0.01, the margin between two tiers of edge prizes
c == Rat(1, 100)

\* ---------------------------------------------------------------- 0-based lists
Range0(n) == 0 .. (n - 1)
Len0(f) == Cardinality(DOMAIN f)
Empty0 == [i \in {} |-> 0]
Append0(f, x) == [i \in Range0(Len0(f) + 1) |-> IF i < Len0(f) THEN f[i] ELSE x]
Concat0(f, g) ==
  [i \in Range0(Len0(f) + Len0(g)) |-> IF i < Len0(f) THEN f[i] ELSE g[i - Len0(f)]]
Values(f) == {f[i] : i \in DOMAIN f}

VARIABLES
  pc,               \* position in retrieval_via_pcst
  num_nodes,        \* graph.num_nodes = len(textual_nodes)
  e_idx,            \* graph.edge_index: edge i |-> <<src, dst>>
  x_rows,           \* number of rows of graph.x (node_feat)
  edge_attr_rows,   \* number of rows of graph.edge_attr (e_attr)
  topk, topk_e, cost_e,
  n_prizes,         \* first CosineSimilarity(q_emb, node_feat), then the node prizes
  e_prizes,         \* first CosineSimilarity(q_emb, e_attr), then the edge prizes
  edge_list, cost_list, virtual_edges, virtual_costs, virtual_n_prizes,
  mapping_n, mapping_e,
  solver_calls,     \* number of calls of pcst_fast
  vertices, edges,  \* what pcst_fast returned
  out,              \* the returned Data and desc
  WITH_PCST, WITH_TRANSFORMERS, WITH_DATASETS, WITH_PANDAS,  \* the import flags
  force_reload,     \* argument of __init__
  missing_imports, missing_str_list,
  error_out,        \* the message of the ImportError that __init__ raised
  graph,            \* data_i["graph"]: the triples consumed so far
  raw_nodes,        \* dict: lower-cased entity string |-> node id
  raw_edges,        \* list of rows [src, edge_attr, dst]
  textual_nodes,    \* the DataFrame nodes: rows [node_id, node_attr]
  textual_edges     \* the DataFrame edges: rows [src, edge_attr, dst]

inputs == <<num_nodes, e_idx, x_rows, edge_attr_rows, topk, topk_e, cost_e>>
reduced == <<edge_list, cost_list, virtual_edges, virtual_costs, virtual_n_prizes,
             mapping_n, mapping_e>>
solved == <<solver_calls, vertices, edges>>
imports == <<WITH_PCST, WITH_TRANSFORMERS, WITH_DATASETS, WITH_PANDAS>>
ctor == <<imports, force_reload, missing_imports, missing_str_list, error_out>>
builder == <<graph, raw_nodes, raw_edges, textual_nodes, textual_edges>>
dataset == <<ctor, builder>>
vars == <<pc, inputs, n_prizes, e_prizes, reduced, solved, out, dataset>>

num_edges == Len0(e_idx)

\* ------------------------------------------------------------------ inputs
Nodes == Range0(num_nodes)
\* cost_e: the default, which is also the value process() passes
CostEs == {Rat(1, 2)}
\* cosine similarities the embeddings may have to the query
NodeSims == {Rat(-1, 2), Zero, Rat(1, 2)}
EdgeSims == {Rat(-1, 2), Zero, Rat(1, 1)}
\* in a long vector also 2/3, a similarity that a score (topk_e - k) / count can equal
TieSims == EdgeSims \cup {Rat(2, 3)}

\* the edge lists of n edges that process() builds over m nodes: the node ids occur
\* in first-seen order (raw_nodes[h] = len(raw_nodes)) and every node occurs; a
\* direct caller may also pass nodes without any edge
FirstSeenOrder(l, m) ==
  LET flat == [k \in Range0(2 * Len0(l)) |-> l[k \div 2][(k % 2) + 1]]
  IN /\ \A k \in DOMAIN flat : flat[k] <= Cardinality({flat[j] : j \in Range0(k)})
     /\ Len0(l) > 0 => Values(flat) = Range0(m)
EdgeLists(m, n) == {l \in [Range0(n) -> Range0(m) \X Range0(m)] : FirstSeenOrder(l, m)}

\* a long similarity vector: up to three runs of equal values
CutPoints(n) == {0, 1, 2, 3, n - 1, n} \cap (0 .. n)
Runs(n) ==
  {[i \in Range0(n) |-> IF i < a THEN v[1] ELSE IF i < b THEN v[2] ELSE v[3]] :
     <<a, b, v>> \in {t \in CutPoints(n) \X CutPoints(n) \X (TieSims \X TieSims \X TieSims) :
                        t[1] <= t[2]}}
EdgeSimVectors(n) == IF n <= MaxEdges THEN [Range0(n) -> EdgeSims] ELSE Runs(n)

NoReduction ==
  /\ edge_list = Empty0 /\ cost_list = Empty0
  /\ virtual_edges = Empty0 /\ virtual_costs = Empty0 /\ virtual_n_prizes = Empty0
  /\ mapping_n = Empty0 /\ mapping_e = Empty0

\* every text was embedded: one feature row per node and per edge
Embedded == x_rows = num_nodes /\ edge_attr_rows = num_edges

\* __init__ went through: nothing is missing and nothing was raised
NoMessage == Empty0
Constructed ==
  /\ WITH_PCST = TRUE /\ WITH_TRANSFORMERS = TRUE
  /\ WITH_DATASETS = TRUE /\ WITH_PANDAS = TRUE
  /\ force_reload = FALSE
  /\ missing_imports = FALSE /\ missing_str_list = Empty0
  /\ error_out = NoMessage

\* the graph builder of process() has consumed nothing
NoTables ==
  /\ graph = Empty0 /\ raw_nodes = Empty0 /\ raw_edges = Empty0
  /\ textual_nodes = Empty0 /\ textual_edges = Empty0

NoResult ==
  /\ n_prizes = Empty0 /\ e_prizes = Empty0
  /\ NoReduction
  /\ solver_calls = 0 /\ vertices = {} /\ edges = {}
  /\ out = [returned |-> FALSE]

\* a call retrieval_via_pcst(graph, q_emb, textual_nodes, textual_edges, topk, topk_e,
\* cost_e) on any small graph
Init ==
  /\ pc = "start"
  /\ num_nodes \in 0 .. MaxNodes
  /\ \E n \in 0 .. MaxEdges : e_idx \in EdgeLists(num_nodes, n)
  /\ topk \in {0, 1}
  /\ topk_e \in 0 .. MaxTopkE
  /\ cost_e \in CostEs
  /\ Embedded
  /\ NoResult
  /\ Constructed
  /\ NoTables

\* the same call with any topk, on a graph of one edge
InitNodePrizes ==
  /\ pc = "start"
  /\ num_nodes \in 1 .. MaxNodes
  /\ e_idx = [i \in Range0(1) |-> <<0, 0>>]
  /\ topk \in 0 .. MaxTopk
  /\ topk_e = 0
  /\ cost_e \in CostEs
  /\ Embedded
  /\ NoResult
  /\ Constructed
  /\ NoTables

\* the same call with any topk_e, on a multigraph of parallel edges 0 -> 1, few or many
InitEdgePrizes ==
  /\ pc = "start"
  /\ num_nodes = 2
  /\ \E n \in (1 .. (MaxEdges + 2)) \cup {BigTie + 1} : e_idx = [i \in Range0(n) |-> <<0, 1>>]
  /\ topk = 0
  /\ topk_e \in 0 .. MaxTopkE
  /\ cost_e \in CostEs
  /\ Embedded
  /\ NoResult
  /\ Constructed
  /\ NoTables

\* ------------------------------------------------- degenerate passthrough
\* Desc that writes the position of each endpoint in the node rows
DescCompact(node_rows, edge_rows) ==
  LET position(n) == IF n \in Values(node_rows)
                     THEN CHOOSE k \in DOMAIN node_rows : node_rows[k] = n ELSE n
  IN [nodes |-> [k \in DOMAIN node_rows |-> [node_id |-> node_rows[k], node_attr |-> node_rows[k]]],
      edges |-> [k \in DOMAIN edge_rows |->
                   [src |-> position(e_idx[edge_rows[k]][1]), edge_attr |-> edge_rows[k],
                    dst |-> position(e_idx[edge_rows[k]][2])]]]

\* the CSV description: the rows of the node table and of the edge table
Desc(node_rows, edge_rows) ==
  [nodes |-> [k \in DOMAIN node_rows |-> [node_id |-> node_rows[k], node_attr |-> node_rows[k]]],
   edges |-> [k \in DOMAIN edge_rows |->
                [src |-> e_idx[edge_rows[k]][1], edge_attr |-> edge_rows[k],
                 dst |-> e_idx[edge_rows[k]][2]]]]

Identity0(n) == [i \in Range0(n) |-> i]

\* IsDegenerate that needs both tables empty
IsDegenerateBoth == num_nodes = 0 /\ num_edges = 0


IsDegenerate == num_nodes = 0 \/ num_edges = 0

Degenerate ==
  /\ pc = "start"
  /\ IsDegenerate
  /\ out' = [returned |-> TRUE,
             x |-> Identity0(x_rows),
             edge_index |-> e_idx,
             edge_attr |-> Identity0(edge_attr_rows),
             num_nodes |-> num_nodes,
             desc |-> Desc(Identity0(num_nodes), Identity0(num_edges))]
  /\ pc' = "done"
  /\ UNCHANGED <<dataset, inputs, n_prizes, e_prizes, reduced, solved>>

\* ------------------------------------------------------------ node prizes
\* n_prizes = CosineSimilarity(q_emb, node_feat): one similarity per row of node_feat
NodeSimilarity ==
  /\ pc = "start"
  /\ ~IsDegenerate
  /\ topk > 0
  /\ n_prizes' \in [Range0(x_rows) -> NodeSims]
  /\ pc' = "nsim"
  /\ UNCHANGED <<dataset, inputs, e_prizes, reduced, solved, out>>

Min(a, b) == IF a < b THEN a ELSE b

\* torch.topk(sim, k, largest=True): k distinct indices in non-increasing order of
\* sim, none of the others larger than the last; the order among ties is the library's
TopkIndices(sim, k) ==
  {o \in [Range0(k) -> DOMAIN sim] :
     /\ \A a, b \in Range0(k) : a < b => o[a] # o[b] /\ RLeq(sim[o[b]], sim[o[a]])
     /\ \A i \in DOMAIN sim : i \notin Values(o) => \A a \in Range0(k) : RLeq(sim[i], sim[o[a]])}

\* ArangePrizes that hands out 1, 2, ..., k instead of k, k-1, ..., 1
ArangePrizesAscending(sim, k, o) ==
  [i \in DOMAIN sim |->
     IF i \in Values(o) THEN 1 + (CHOOSE a \in Range0(k) : o[a] = i) ELSE 0]

\* n_prizes = zeros; n_prizes[topk_n_indices] = arange(topk, 0, -1)
ArangePrizes(sim, k, o) ==
  [i \in DOMAIN sim |->
     IF i \in Values(o) THEN k - (CHOOSE a \in Range0(k) : o[a] = i) ELSE 0]

\* torch.topk raises RuntimeError when k exceeds the number of elements
AssignNodePrizes ==
  /\ pc = "nsim"
  /\ LET k == Min(topk, num_nodes)
     IN /\ topk' = k
        /\ IF k <= Len0(n_prizes)
           THEN /\ \E o \in TopkIndices(n_prizes, k) : n_prizes' = ArangePrizes(n_prizes, k, o)
                /\ pc' = "nprized"
                /\ UNCHANGED out
           ELSE /\ out' = [returned |-> FALSE, raised |-> "RuntimeError"]
                /\ pc' = "done"
                /\ UNCHANGED n_prizes
  /\ UNCHANGED <<dataset, num_nodes, e_idx, x_rows, edge_attr_rows, topk_e, cost_e, e_prizes, reduced, solved>>

ZeroNodePrizes ==
  /\ pc = "start"
  /\ ~IsDegenerate
  /\ topk <= 0
  /\ n_prizes' = [i \in Nodes |-> 0]
  /\ pc' = "nprized"
  /\ UNCHANGED <<dataset, inputs, e_prizes, reduced, solved, out>>

\* ------------------------------------------------------------ edge prizes
\* e_prizes = CosineSimilarity(q_emb, e_attr)
EdgeSimilarity ==
  /\ pc = "nprized"
  /\ topk_e > 0
  /\ e_prizes' \in EdgeSimVectors(edge_attr_rows)
  /\ pc' = "esim"
  /\ UNCHANGED <<dataset, inputs, n_prizes, reduced, solved, out>>

SetMax(S) == CHOOSE m \in S : \A y \in S : RLeq(y, m)

\* torch.topk(e_prizes.unique(), k, largest=True): the k largest distinct values, descending
RECURSIVE TopkValues(_, _)
TopkValues(S, k) ==
  IF k = 0 THEN Empty0
  ELSE LET m == SetMax(S) IN Concat0(Append0(Empty0, m), TopkValues(S \ {m}, k - 1))

\* e_prizes[e_prizes < topk_e_values[-1]] = 0.0
ZeroBelow(e, threshold) ==
  [i \in DOMAIN e |-> IF RLess(e[i], threshold) THEN Zero ELSE e[i]]

\* one pass of the loop over k (k is 0-based as in the source)
TierIndices(e, v) == {i \in DOMAIN e : e[i] = v}
TierValue(tk, k, count, last) == RMin(Rat(tk - k, count), RSub(last, c))

RECURSIVE TierLoop(_, _, _, _, _)
TierLoop(e, values, tk, k, last) ==
  IF k >= tk THEN e
  ELSE LET indices == TierIndices(e, values[k])
           value == TierValue(tk, k, Cardinality(indices), last)
       IN TierLoop([i \in DOMAIN e |-> IF i \in indices THEN value ELSE e[i]],
                   values, tk, k + 1, value)

ClampTopkE(tk, e) == Min(tk, Cardinality(Values(e)))

EdgePrizes(e, tk) ==
  LET values == TopkValues(Values(e), tk)
  IN TierLoop(ZeroBelow(e, values[tk - 1]), values, tk, 0, Rat(tk, 1))

\* topk_e_values[-1] raises IndexError when topk_e_values is empty
AssignEdgePrizes ==
  /\ pc = "esim"
  /\ topk_e' = ClampTopkE(topk_e, e_prizes)
  /\ IF topk_e' > 0
     THEN /\ e_prizes' = EdgePrizes(e_prizes, topk_e')
          /\ pc' = "eprized"
          /\ UNCHANGED out
     ELSE /\ out' = [returned |-> FALSE, raised |-> "IndexError"]
          /\ pc' = "done"
          /\ UNCHANGED e_prizes
  /\ UNCHANGED <<dataset, num_nodes, e_idx, x_rows, edge_attr_rows, topk, cost_e, n_prizes, reduced, solved>>

ZeroEdgePrizes ==
  /\ pc = "nprized"
  /\ topk_e <= 0
  /\ e_prizes' = [i \in Range0(num_edges) |-> Zero]
  /\ pc' = "eprized"
  /\ UNCHANGED <<dataset, inputs, n_prizes, reduced, solved, out>>

NextPrizes ==
  \/ NodeSimilarity \/ AssignNodePrizes \/ ZeroNodePrizes
  \/ EdgeSimilarity \/ AssignEdgePrizes \/ ZeroEdgePrizes

\* prize assignment alone, over all similarity vectors, short ones and ones with long ties
SpecPrizes == (InitNodePrizes \/ InitEdgePrizes) /\ [][NextPrizes]_vars

\* --------------------------------------------------- virtual-node reduction
DictPut(d, key, value) == [x \in DOMAIN d \cup {key} |-> IF x = key THEN value ELSE d[x]]

\* ReduceEdge that keeps an edge only if its prize is strictly below the cost
ReduceEdgeStrict(r, i, prizes, cost, n) ==
  LET src == e_idx[i][1]
      dst == e_idx[i][2]
      prize_e == prizes[i]
  IN IF RLess(prize_e, cost)
     THEN [r EXCEPT !.mapping_e = DictPut(@, Len0(r.edge_list), i),
                    !.edge_list = Append0(@, <<src, dst>>),
                    !.cost_list = Append0(@, RSub(cost, prize_e))]
     ELSE LET virtual_node_id == n + Len0(r.virtual_n_prizes)
          IN [r EXCEPT !.mapping_n = DictPut(@, virtual_node_id, i),
                       !.virtual_edges = Append0(Append0(@, <<src, virtual_node_id>>),
                                                 <<virtual_node_id, dst>>),
                       !.virtual_costs = Append0(Append0(@, Zero), Zero),
                       !.virtual_n_prizes = Append0(@, RSub(prize_e, cost))]

\* the body of the loop over the edges, for edge i
ReduceEdge(r, i, prizes, cost, n) ==
  LET src == e_idx[i][1]
      dst == e_idx[i][2]
      prize_e == prizes[i]
  IN IF RLeq(prize_e, cost)
     THEN [r EXCEPT !.mapping_e = DictPut(@, Len0(r.edge_list), i),
                    !.edge_list = Append0(@, <<src, dst>>),
                    !.cost_list = Append0(@, RSub(cost, prize_e))]
     ELSE LET virtual_node_id == n + Len0(r.virtual_n_prizes)
          IN [r EXCEPT !.mapping_n = DictPut(@, virtual_node_id, i),
                       !.virtual_edges = Append0(Append0(@, <<src, virtual_node_id>>),
                                                 <<virtual_node_id, dst>>),
                       !.virtual_costs = Append0(Append0(@, Zero), Zero),
                       !.virtual_n_prizes = Append0(@, RSub(prize_e, cost))]

RECURSIVE ReduceLoop(_, _, _, _, _)
ReduceLoop(r, i, prizes, cost, n) ==
  IF i >= Len0(prizes) THEN r
  ELSE ReduceLoop(ReduceEdge(r, i, prizes, cost, n), i + 1, prizes, cost, n)

Reduce ==
  /\ pc = "eprized"
  /\ LET r == ReduceLoop([edge_list |-> Empty0, cost_list |-> Empty0,
                          virtual_edges |-> Empty0, virtual_costs |-> Empty0,
                          virtual_n_prizes |-> Empty0,
                          mapping_n |-> Empty0, mapping_e |-> Empty0],
                         0, e_prizes, cost_e, num_nodes)
     IN /\ edge_list' = r.edge_list
        /\ cost_list' = r.cost_list
        /\ virtual_edges' = r.virtual_edges
        /\ virtual_costs' = r.virtual_costs
        /\ virtual_n_prizes' = r.virtual_n_prizes
        /\ mapping_n' = r.mapping_n
        /\ mapping_e' = r.mapping_e
  /\ pc' = "reduced"
  /\ UNCHANGED <<dataset, inputs, n_prizes, e_prizes, solved, out>>

\* the instance handed to pcst_fast
SolverPrizes == Concat0([i \in DOMAIN n_prizes |-> Rat(n_prizes[i], 1)], virtual_n_prizes)
SolverCosts == Concat0(cost_list, virtual_costs)
SolverEdges == Concat0(edge_list, virtual_edges)

\* ----------------------------------------------------------- the PCST solver
\* the vertices that the edges at the positions T of the edge list E touch
Endpoints(T, E) == UNION {{E[t][1], E[t][2]} : t \in T}

RECURSIVE Reach(_, _, _)
Reach(R, T, E) ==
  LET more == R \cup Endpoints({u \in T : E[u][1] \in R \/ E[u][2] \in R}, E)
  IN IF more = R THEN R ELSE Reach(more, T, E)

\* num_clusters = 1, root = -1: the solver returns one tree of the instance with
\* the edge list E and n vertices, as the set V of its vertices and the set T of
\* the positions of its edges
IsTree(V, T, E, n) ==
  /\ V # {}
  /\ V \subseteq Range0(n)
  /\ Cardinality(V) = Cardinality(T) + 1
  /\ T # {} => V = Endpoints(T, E)
  /\ Reach({CHOOSE v \in V : TRUE}, T, E) = V

Solve ==
  /\ pc = "reduced"
  /\ LET E == SolverEdges
         n == Len0(SolverPrizes)
     IN \E T \in SUBSET DOMAIN E :
          \E V \in IF T = {} THEN {{v} : v \in Range0(n)} ELSE {Endpoints(T, E)} :
            /\ IsTree(V, T, E, n)
            /\ vertices' = V
            /\ edges' = T
  /\ solver_calls' = solver_calls + 1
  /\ pc' = "solved"
  /\ UNCHANGED <<dataset, inputs, n_prizes, e_prizes, reduced, out>>

\* ------------------------------------------------------------ reconstruction
\* the members of a set of integers in ascending order
RECURSIVE Sorted0(_)
Sorted0(S) ==
  IF S = {} THEN Empty0
  ELSE LET m == CHOOSE x \in S : \A y \in S : x <= y
       IN Concat0(Append0(Empty0, m), Sorted0(S \ {m}))

Map0(f, d) == [k \in DOMAIN f |-> d[f[k]]]

\* NewSelectedEdges that drops the edges of the selected virtual vertices
NewSelectedEdgesRealOnly(V, T) ==
  Map0(Sorted0({t \in T : t < Len0(edge_list)}), mapping_e)

\* selected_edges + new_virtual_edges (the solver's arrays are read in ascending order)
NewSelectedEdges(V, T) ==
  LET selected_edges == Map0(Sorted0({t \in T : t < Len0(edge_list)}), mapping_e)
      virtual_vertices == Sorted0({v \in V : v >= num_nodes})
      new_virtual_edges == Map0(virtual_vertices, mapping_n)
  IN Concat0(selected_edges, new_virtual_edges)

SelectedNodes(V) == Sorted0({v \in V : v < num_nodes})

\* NewSelectedNodes without the destinations of the selected edges
NewSelectedNodesNoDst(sel, edge_index) ==
  Sorted0(Values(sel) \cup {edge_index[k][1] : k \in DOMAIN edge_index})

\* np.unique(np.concatenate([selected_nodes, edge_index[0], edge_index[1]]))
NewSelectedNodes(sel, edge_index) ==
  Sorted0(Values(sel) \cup {edge_index[k][1] : k \in DOMAIN edge_index}
                      \cup {edge_index[k][2] : k \in DOMAIN edge_index})

\* Mapping that leaves the original ids in place
MappingIdentity(nodes) == [n \in Values(nodes) |-> n]

\* mapping = {n: i for i, n in enumerate(new_selected_nodes)}
Mapping(nodes) == [n \in Values(nodes) |-> CHOOSE i \in DOMAIN nodes : nodes[i] = n]

Remap(edge_index, mapping) ==
  [k \in DOMAIN edge_index |-> <<mapping[edge_index[k][1]], mapping[edge_index[k][2]]>>]

OutNumNodes(sel, nodes) == Len0(sel)

\* what the call returns for the solver's selection (V, T); node_feat[...] and
\* e_attr[...] raise IndexError for a row that does not exist, the lookups
\* mapping[i] raise KeyError for an endpoint that is not a key
Reconstruction(V, T) ==
  LET selected_nodes == SelectedNodes(V)
      new_selected_edges == NewSelectedEdges(V, T)
      edge_index == Map0(new_selected_edges, e_idx)
      new_selected_nodes == NewSelectedNodes(selected_nodes, edge_index)
      mapping == Mapping(new_selected_nodes)
  IN IF \/ \E n \in Values(new_selected_nodes) : n >= x_rows
        \/ \E e \in Values(new_selected_edges) : e >= edge_attr_rows
     THEN [returned |-> FALSE, raised |-> "IndexError"]
     ELSE IF \A k \in DOMAIN edge_index : edge_index[k][1] \in DOMAIN mapping
                                     /\ edge_index[k][2] \in DOMAIN mapping
     THEN [returned |-> TRUE,
           x |-> new_selected_nodes,
           edge_index |-> Remap(edge_index, mapping),
           edge_attr |-> new_selected_edges,
           num_nodes |-> OutNumNodes(selected_nodes, new_selected_nodes),
           desc |-> Desc(new_selected_nodes, new_selected_edges)]
     ELSE [returned |-> FALSE, raised |-> "KeyError"]

Reconstruct ==
  /\ pc = "solved"
  /\ out' = Reconstruction(vertices, edges)
  /\ pc' = "done"
  /\ UNCHANGED <<dataset, inputs, n_prizes, e_prizes, reduced, solved>>

Next ==
  \/ Degenerate
  \/ NodeSimilarity \/ AssignNodePrizes \/ ZeroNodePrizes
  \/ EdgeSimilarity \/ AssignEdgePrizes \/ ZeroEdgePrizes
  \/ Reduce
  \/ Solve
  \/ Reconstruct

Spec == Init /\ [][Next]_vars

\* ------------------------------------------------- an optimising solver
RAdd(a, b) == Rat(a[1] * b[2] + b[1] * a[2], a[2] * b[2])

RECURSIVE RSum(_, _)
RSum(f, S) ==
  IF S = {} THEN Zero
  ELSE LET x == CHOOSE y \in S : TRUE IN RAdd(f[x], RSum(f, S \ {x}))

\* total prize of the vertices V minus total cost of the edges at the positions T
Objective(V, T) == RSub(RSum(SolverPrizes, V), RSum(SolverCosts, T))

\* the trees of the instance with the edge list E and n vertices
Trees(E, n) ==
  {vt \in UNION {{<<V, T>> : V \in IF T = {} THEN {{v} : v \in Range0(n)}
                                               ELSE {Endpoints(T, E)}} :
                   T \in SUBSET DOMAIN E} :
     IsTree(vt[1], vt[2], E, n)}

\* pcst_fast as a solver that returns a tree of the largest objective, whichever
\* of those it is
SolveOptimal ==
  /\ pc = "reduced"
  /\ LET trees == Trees(SolverEdges, Len0(SolverPrizes))
         value == [vt \in trees |-> Objective(vt[1], vt[2])]
     IN \E vt \in trees :
          /\ \A other \in trees : RLeq(value[other], value[vt])
          /\ vertices' = vt[1]
          /\ edges' = vt[2]
  /\ solver_calls' = solver_calls + 1
  /\ pc' = "solved"
  /\ UNCHANGED <<dataset, inputs, n_prizes, e_prizes, reduced, out>>

\* the query embedding is the embedding of one of the nodes: that node has cosine
\* similarity 1, the other nodes, whose texts differ, have less
QueryNodeSimilarity ==
  /\ pc = "start"
  /\ ~IsDegenerate
  /\ topk > 0
  /\ \E q \in Range0(x_rows) :
       n_prizes' \in {sim \in [Range0(x_rows) -> NodeSims \cup {Rat(1, 1)}] :
                        \A i \in Range0(x_rows) : sim[i] = Rat(1, 1) <=> i = q}
  /\ pc' = "nsim"
  /\ UNCHANGED <<dataset, inputs, e_prizes, reduced, solved, out>>

\* a call with topk=1, topk_e=1, cost_e=0.5 on any small graph
InitOptimal ==
  /\ pc = "start"
  /\ num_nodes \in 0 .. MaxNodes
  /\ \E n \in 0 .. MaxEdges : e_idx \in EdgeLists(num_nodes, n)
  /\ topk = 1
  /\ topk_e = 1
  /\ cost_e = Rat(1, 2)
  /\ Embedded
  /\ NoResult
  /\ Constructed
  /\ NoTables

NextOptimal ==
  \/ Degenerate
  \/ QueryNodeSimilarity \/ AssignNodePrizes
  \/ EdgeSimilarity \/ AssignEdgePrizes
  \/ Reduce
  \/ SolveOptimal
  \/ Reconstruct

\* the extraction for a query that is one of the nodes, with an optimising solver
SpecOptimal == InitOptimal /\ [][NextOptimal]_vars

\* ------------------------------------------- process(): embedding and call
\* topk=3 and topk_e=5, the values process() passes to retrieval_via_pcst
ProcessTopk == 3
ProcessTopkE == 5

\* sbert_text2embedding on n texts: the number of rows of what it returns; a
\* failure inside the try block is caught and torch.zeros((0, 1024)) returned
Text2Embedding(n, failed) == IF failed THEN 0 ELSE n

\* process() has built the tables of one graph from the triples: every node occurs
\* in an edge; nothing is embedded yet
InitProcess ==
  /\ pc = "encode_nodes"
  /\ num_nodes \in 0 .. MaxNodes
  /\ \E n \in 0 .. MaxEdges : e_idx \in EdgeLists(num_nodes, n) /\ (n = 0 => num_nodes = 0)
  /\ x_rows = 0
  /\ edge_attr_rows = 0
  /\ topk = ProcessTopk
  /\ topk_e = ProcessTopkE
  /\ cost_e = Rat(1, 2)
  /\ NoResult
  /\ Constructed
  /\ NoTables

\* x = self.text2embedding(..., nodes.node_attr.tolist())
EncodeNodes ==
  /\ pc = "encode_nodes"
  /\ \E failed \in BOOLEAN : x_rows' = Text2Embedding(num_nodes, failed)
  /\ pc' = "encode_edges"
  /\ UNCHANGED <<dataset, num_nodes, e_idx, edge_attr_rows, topk, topk_e, cost_e,
                 n_prizes, e_prizes, reduced, solved, out>>

\* edge_attr = self.text2embedding(..., edges.edge_attr.tolist()), then the call
\* self.retrieval_via_pcst(raw_graph, q_embs[index], nodes, edges, topk=3, topk_e=5, cost_e=0.5)
EncodeEdges ==
  /\ pc = "encode_edges"
  /\ \E failed \in BOOLEAN : edge_attr_rows' = Text2Embedding(num_edges, failed)
  /\ pc' = "start"
  /\ UNCHANGED <<dataset, num_nodes, e_idx, x_rows, topk, topk_e, cost_e,
                 n_prizes, e_prizes, reduced, solved, out>>

NextProcess ==
  \/ EncodeNodes \/ EncodeEdges
  \/ Degenerate
  \/ NodeSimilarity \/ AssignNodePrizes
  \/ EdgeSimilarity \/ AssignEdgePrizes
  \/ Reduce
  \/ Solve
  \/ Reconstruct

\* the extraction of one graph in process(), the embedder failing or not
SpecProcess == InitProcess /\ [][NextProcess]_vars

\* ------------------------------------------------- WebQSPDataset.__init__
call == <<inputs, n_prizes, e_prizes, reduced, solved, out>>

\* retrieval_via_pcst has not been called
NoCall ==
  /\ num_nodes = 0 /\ e_idx = Empty0 /\ x_rows = 0 /\ edge_attr_rows = 0
  /\ topk = 0 /\ topk_e = 0 /\ cost_e = Zero
  /\ NoResult

\* WebQSPDataset(root, force_reload) in an environment where any of the four
\* optional imports may have failed
InitCtor ==
  /\ pc = "init"
  /\ WITH_PCST \in BOOLEAN /\ WITH_TRANSFORMERS \in BOOLEAN
  /\ WITH_DATASETS \in BOOLEAN /\ WITH_PANDAS \in BOOLEAN
  /\ force_reload \in BOOLEAN
  /\ missing_imports = FALSE /\ missing_str_list = Empty0
  /\ error_out = NoMessage
  /\ NoTables
  /\ NoCall

\* CheckImport that reports the first missing import only
CheckImportFirstOnly(flag, name, list) ==
  IF ~flag /\ list = Empty0 THEN Append0(list, name) ELSE list

\* if not WITH_X: missing_str_list.append(name)
CheckImport(flag, name, list) == IF ~flag THEN Append0(list, name) ELSE list

\* one of the four if statements: the list and the flag missing_imports
Check(at, flag, name, next) ==
  /\ pc = at
  /\ missing_str_list' = CheckImport(flag, name, missing_str_list)
  /\ missing_imports' = IF ~flag THEN TRUE ELSE missing_imports
  /\ pc' = next
  /\ UNCHANGED <<call, builder, imports, force_reload, error_out>>

CheckPcst == Check("init", WITH_PCST, "pcst_fast", "check_transformers")
CheckTransformers == Check("check_transformers", WITH_TRANSFORMERS, "transformers", "check_datasets")
CheckDatasets == Check("check_datasets", WITH_DATASETS, "datasets", "check_pandas")
CheckPandas == Check("check_pandas", WITH_PANDAS, "pandas", "check_missing")

\* sep.join(list), as the list of its pieces: the elements with sep between them
Join(sep, list) ==
  IF list = Empty0 THEN Empty0
  ELSE [i \in Range0(2 * Len0(list) - 1) |-> IF i % 2 = 0 THEN list[i \div 2] ELSE sep]

\* f"`pip install {missing_str}` to use this dataset.", as the list of its pieces
\* (without the two back quotes, which a string of this language cannot hold)
ErrorOut(missing_str) ==
  Concat0(Append0(Empty0, "pip install "), Append0(missing_str, " to use this dataset."))

\* if missing_imports: raise ImportError(error_out)
RaiseImportError ==
  /\ pc = "check_missing"
  /\ missing_imports
  /\ error_out' = ErrorOut(Join(" ", missing_str_list))
  /\ pc' = "raised"
  /\ UNCHANGED <<call, builder, imports, force_reload, missing_imports, missing_str_list>>

\* nothing is missing: the fields are set, next is super().__init__
SetFields ==
  /\ pc = "check_missing"
  /\ ~missing_imports
  /\ pc' = "super_init"
  /\ UNCHANGED <<call, dataset>>

\* super().__init__(root, None, None, force_reload=force_reload): download and process
SuperInit ==
  /\ pc = "super_init"
  /\ pc' = "load"
  /\ UNCHANGED <<call, dataset>>

\* self.load(self.processed_paths[0])
Load ==
  /\ pc = "load"
  /\ pc' = "constructed"
  /\ UNCHANGED <<call, dataset>>

NextCtor ==
  \/ CheckPcst \/ CheckTransformers \/ CheckDatasets \/ CheckPandas
  \/ RaiseImportError
  \/ SetFields \/ SuperInit \/ Load

SpecCtor == InitCtor /\ [][NextCtor]_vars

\* ------------------------------------------------ process(): graph builder
\* entity strings, some differing in case only, and relation strings
Entities == {"Paris", "paris", "France", "FRANCE"}
Relations == {"capital_of", "located_in"}

\* Lower that leaves the string as it is
LowerIdentity(str) == str

\* str.lower() on the entity strings
Lower(str) ==
  CASE str = "Paris" -> "paris"
    [] str = "France" -> "france"
    [] str = "FRANCE" -> "france"
    [] OTHER -> str

\* a dict is the list of its items [key, value] in insertion order
HasKey(d, key) == \E k \in DOMAIN d : d[k].key = key
Get(d, key) == d[CHOOSE k \in DOMAIN d : d[k].key = key].value
\* if key not in d: d[key] = len(d)
PutIfNew(d, key) == IF HasKey(d, key) THEN d ELSE Append0(d, [key |-> key, value |-> Len0(d)])

\* process() starts on the triples of one graph: raw_nodes = {}, raw_edges = []
InitBuilder ==
  /\ pc = "triples"
  /\ NoTables
  /\ Constructed
  /\ NoCall

\* one pass of the loop over data_i["graph"], for the next triple (h, r, t)
ConsumeTriple ==
  /\ pc = "triples"
  /\ Len0(graph) < MaxTriples
  /\ \E tri \in Entities \X Relations \X Entities :
       LET h == Lower(tri[1])
           r == tri[2]
           t == Lower(tri[3])
           nodes_ht == PutIfNew(PutIfNew(raw_nodes, h), t)
       IN /\ graph' = Append0(graph, tri)
          /\ raw_nodes' = nodes_ht
          /\ raw_edges' = Append0(raw_edges, [src |-> Get(nodes_ht, h), edge_attr |-> r,
                                              dst |-> Get(nodes_ht, t)])
  /\ UNCHANGED <<pc, call, ctor, textual_nodes, textual_edges>>

\* the triples are used up: the DataFrames nodes and edges, edge_index and
\* num_nodes = len(nodes) of raw_graph
BuildTables ==
  /\ pc = "triples"
  /\ textual_nodes' = [k \in DOMAIN raw_nodes |->
                         [node_id |-> raw_nodes[k].value, node_attr |-> raw_nodes[k].key]]
  /\ textual_edges' = raw_edges
  /\ e_idx' = [k \in DOMAIN raw_edges |-> <<raw_edges[k].src, raw_edges[k].dst>>]
  /\ num_nodes' = Len0(raw_nodes)
  /\ pc' = "tables"
  /\ UNCHANGED <<x_rows, edge_attr_rows, topk, topk_e, cost_e, n_prizes, e_prizes,
                 reduced, solved, out, ctor, graph, raw_nodes, raw_edges>>

NextBuilder == ConsumeTriple \/ BuildTables

\* the graph builder of process() on any short list of triples
SpecBuilder == InitBuilder /\ [][NextBuilder]_vars
\* ================================================================== claims
\* the call went through the solver and returned
Pruned == pc = "done" /\ solver_calls > 0
FinalEdges == Values(out.edge_attr)
FinalNodes == Values(out.x)
EdgeIndexIds ==
  {out.edge_index[k][1] : k \in DOMAIN out.edge_index}
    \cup {out.edge_index[k][2] : k \in DOMAIN out.edge_index}

\* C1: a non-degenerate call returns, and the source and the destination of every
\* edge of the final edge set are in the final node set, the one sliced into x
C1_NoDanglingEdge ==
  Pruned =>
    /\ out.returned
    /\ \A k \in DOMAIN out.edge_index :
         LET e == e_idx[out.edge_attr[k]]
         IN /\ e[1] \in FinalNodes /\ e[2] \in FinalNodes
            /\ out.edge_index[k][1] \in DOMAIN out.x /\ out.x[out.edge_index[k][1]] = e[1]
            /\ out.edge_index[k][2] \in DOMAIN out.x /\ out.x[out.edge_index[k][2]] = e[2]

\* C1 witness: the solver selected one virtual node and none of its endpoints
C1_Witness ==
  /\ Pruned /\ out.returned
  /\ Cardinality(vertices) = 1 /\ \A v \in vertices : v >= num_nodes
  /\ Len0(out.edge_index) = 1 /\ Cardinality(FinalNodes) = 2

\* C2 as stated: the ids in edge_index are exactly [0, |final nodes|)
C2_Claim == (Pruned /\ out.returned) => EdgeIndexIds = Range0(Len0(out.x))

\* a final node that is no endpoint of a final edge
Isolated(n) == \A e \in FinalEdges : e_idx[e][1] # n /\ e_idx[e][2] # n

\* C2 amended: the ids in edge_index lie in [0, |final nodes|) and are exactly the
\* positions in x of the endpoints of the final edges; the position of a selected
\* node that is an endpoint of no final edge is the only kind of id left out
C2_Compaction ==
  (Pruned /\ out.returned) =>
    /\ EdgeIndexIds \subseteq Range0(Len0(out.x))
    /\ \A i \in Range0(Len0(out.x)) :
         /\ i \in EdgeIndexIds <=> ~Isolated(out.x[i])
         /\ i \notin EdgeIndexIds => out.x[i] \in vertices
    /\ \A i, j \in Range0(Len0(out.x)) : i < j => out.x[i] < out.x[j]

\* C2 witness: the final node set is not a prefix of the node ids, and one of its
\* nodes is an endpoint of no final edge
C2_Witness ==
  /\ Pruned /\ out.returned
  /\ 0 \notin FinalNodes
  /\ \E n \in FinalNodes : Isolated(n)

\* C7: every edge goes to exactly one of the two shapes
CheapEdge(i) ==
  /\ RLeq(e_prizes[i], cost_e)
  /\ Cardinality({p \in DOMAIN mapping_e : mapping_e[p] = i}) = 1
  /\ \A v \in DOMAIN mapping_n : mapping_n[v] # i
  /\ LET p == CHOOSE q \in DOMAIN mapping_e : mapping_e[q] = i
     IN /\ edge_list[p] = e_idx[i]
        /\ cost_list[p] = RSub(cost_e, e_prizes[i])
        /\ RLeq(Zero, cost_list[p])
        /\ p = Cardinality({j \in Range0(i) : RLeq(e_prizes[j], cost_e)})

VirtualEdge(i) ==
  /\ RLess(cost_e, e_prizes[i])
  /\ Cardinality({v \in DOMAIN mapping_n : mapping_n[v] = i}) = 1
  /\ \A p \in DOMAIN mapping_e : mapping_e[p] # i
  /\ LET v == CHOOSE w \in DOMAIN mapping_n : mapping_n[w] = i
         j == v - num_nodes
     IN /\ j = Cardinality({h \in Range0(i) : RLess(cost_e, e_prizes[h])})
        /\ virtual_n_prizes[j] = RSub(e_prizes[i], cost_e)
        /\ virtual_edges[2 * j] = <<e_idx[i][1], v>>
        /\ virtual_edges[2 * j + 1] = <<v, e_idx[i][2]>>
        /\ virtual_costs[2 * j] = Zero /\ virtual_costs[2 * j + 1] = Zero

C7_Reduction ==
  (pc \in {"reduced", "solved"} \/ Pruned) =>
    LET nv == Len0(virtual_n_prizes)
    IN /\ \A i \in Range0(num_edges) : CheapEdge(i) \/ VirtualEdge(i)
       /\ DOMAIN mapping_e = Range0(Len0(edge_list))
       /\ DOMAIN mapping_n = num_nodes .. (num_nodes + nv - 1)
       /\ Len0(SolverPrizes) = num_nodes + nv
       /\ Len0(SolverEdges) = Len0(edge_list) + 2 * nv
       /\ Len0(SolverCosts) = Len0(SolverEdges)
       /\ Len0(edge_list) + nv = num_edges

\* C7 witness: one edge of each shape, the virtual node being the first one created
C7_Witness ==
  /\ pc = "reduced"
  /\ Len0(edge_list) = 1 /\ Len0(virtual_n_prizes) = 1
  /\ DOMAIN mapping_n = {num_nodes}
  /\ Len0(virtual_edges) = 2

\* C8: a selected virtual node brings back its edge and both endpoints, and every
\* selected real edge position is mapped back to its edge
C8_VirtualNodeRestored ==
  Pruned =>
    /\ out.returned
    /\ \A v \in vertices : v >= num_nodes =>
         /\ mapping_n[v] \in FinalEdges
         /\ e_idx[mapping_n[v]][1] \in FinalNodes
         /\ e_idx[mapping_n[v]][2] \in FinalNodes
    /\ \A t \in edges : t < Len0(edge_list) => mapping_e[t] \in FinalEdges
    /\ Cardinality(FinalEdges) = Len0(out.edge_attr)

\* C8 witness: the solver returned a virtual node alone, without its endpoints
C8_Witness ==
  /\ Pruned /\ out.returned
  /\ \E v \in vertices : v >= num_nodes /\ e_idx[mapping_n[v]][1] \notin vertices
                          /\ e_idx[mapping_n[v]][2] \notin vertices
  /\ edges = {}

\* C9: a graph with no node or no edge never reaches the solver and is returned as
\* it came, with the description of the whole tables; only other graphs reach it
C9_DegeneratePassthrough ==
  /\ IsDegenerate => pc \in {"start", "done"} /\ solver_calls = 0
  /\ (IsDegenerate /\ pc = "done") =>
       /\ out.returned
       /\ out.x = Identity0(num_nodes)
       /\ out.edge_index = e_idx
       /\ out.edge_attr = Identity0(num_edges)
       /\ out.num_nodes = num_nodes
       /\ Len0(out.desc.nodes) = num_nodes /\ Len0(out.desc.edges) = num_edges
       /\ \A k \in DOMAIN out.desc.nodes : out.desc.nodes[k].node_id = k
       /\ \A k \in DOMAIN out.desc.edges :
            out.desc.edges[k] = [src |-> e_idx[k][1], edge_attr |-> k, dst |-> e_idx[k][2]]
  /\ solver_calls > 0 => num_nodes > 0 /\ num_edges > 0
  /\ (pc \notin {"start", "done"}) => ~IsDegenerate

\* C9 witness: nodes without edges, returned
C9_Witness == pc = "done" /\ num_nodes > 0 /\ num_edges = 0 /\ out.returned

\* C10 as stated: the rows of the edge block carry the ids of edge_index
C10_Claim ==
  (Pruned /\ out.returned) =>
    \A k \in DOMAIN out.desc.edges :
      /\ out.desc.edges[k].src = out.edge_index[k][1]
      /\ out.desc.edges[k].dst = out.edge_index[k][2]

\* C10 amended: row k of the edge block carries the original node ids of the k-th
\* final edge, each of them a node_id of the node block; the ids of edge_index are
\* the positions of these ids in the node block
C10_DescOriginalIds ==
  (Pruned /\ out.returned) =>
    /\ DOMAIN out.desc.edges = DOMAIN out.edge_index
    /\ \A k \in DOMAIN out.desc.edges :
         LET row == out.desc.edges[k]
         IN /\ row.src = e_idx[out.edge_attr[k]][1]
            /\ row.dst = e_idx[out.edge_attr[k]][2]
            /\ row.edge_attr = out.edge_attr[k]
            /\ out.desc.nodes[out.edge_index[k][1]].node_id = row.src
            /\ out.desc.nodes[out.edge_index[k][2]].node_id = row.dst

\* C10 witness: an edge whose ids in the description differ from those of edge_index
C10_Witness ==
  /\ Pruned /\ out.returned
  /\ \E k \in DOMAIN out.desc.edges : out.desc.edges[k].src # out.edge_index[k][1]
\* C3: the step from the node similarities to the node prizes.  With k = min(topk,
\* num_nodes), each of the prizes k, ..., 1 goes to exactly one node, every other
\* node gets 0, and a node never gets a higher prize than a node of strictly
\* higher similarity, so the prizes descend with the similarity (equal
\* similarities in the order torch.topk returns them); with topk <= 0 all are 0
NodePrizesOrdered(sim, prizes, k) ==
  /\ DOMAIN prizes = DOMAIN sim
  /\ \A i \in DOMAIN prizes : prizes[i] \in 0 .. k
  /\ \A r \in 1 .. k : Cardinality({i \in DOMAIN prizes : prizes[i] = r}) = 1
  /\ \A i, j \in DOMAIN prizes : RLess(sim[j], sim[i]) => prizes[i] >= prizes[j]
  /\ \A i, j \in DOMAIN prizes :
       (RLess(sim[j], sim[i]) /\ prizes[j] > 0) => prizes[i] > prizes[j]

C3_NodePrizeOrdering ==
  [][/\ (pc = "nsim" /\ pc' = "nprized") =>
          /\ topk > 0
          /\ NodePrizesOrdered(n_prizes, n_prizes', Min(topk, num_nodes))
     /\ (pc = "start" /\ pc' = "nprized") =>
          /\ topk <= 0
          /\ n_prizes' = [i \in Nodes |-> 0]
     /\ (pc = "start" /\ pc' = "nsim") => topk > 0]_vars

\* C3 witness: three nodes with the prizes 2, 1 and 0
C3_Witness ==
  /\ pc = "nprized" /\ num_nodes = 3 /\ topk = 2
  /\ {n_prizes[i] : i \in Nodes} = {0, 1, 2}

\* the tiers of a similarity vector as the claims C4 and C5 describe them
TiersOf(sim, tk) == TopkValues(Values(sim), Min(tk, Cardinality(Values(sim))))
TierCount(sim, v) == Cardinality({i \in DOMAIN sim : sim[i] = v})

RECURSIVE TierScore(_, _, _)
TierScore(sim, tk, rank) ==
  LET k == Min(tk, Cardinality(Values(sim)))
      previous == IF rank = 0 THEN Rat(k, 1) ELSE TierScore(sim, tk, rank - 1)
  IN RMin(Rat(k - rank, TierCount(sim, TiersOf(sim, tk)[rank])), RSub(previous, c))

\* C4 as stated: every edge of the tier of rank r gets
\* min((topk_e - r) / count, previous - 0.01), count being the number of edges with
\* that similarity, and the scores strictly decrease from tier to tier
C4_Claim ==
  [][(pc = "esim" /\ pc' = "eprized") =>
       LET tiers == TiersOf(e_prizes, topk_e)
       IN /\ \A r \in DOMAIN tiers : \A i \in DOMAIN e_prizes :
               e_prizes[i] = tiers[r] => e_prizes'[i] = TierScore(e_prizes, topk_e, r)
          /\ \A r, q \in DOMAIN tiers : \A i, j \in DOMAIN e_prizes :
               (r < q /\ e_prizes[i] = tiers[r] /\ e_prizes[j] = tiers[q])
                 => RLess(e_prizes'[j], e_prizes'[i])]_vars

\* C5 as stated: an edge below the topk_e-th highest distinct similarity gets 0
C5_Claim ==
  [][(pc = "esim" /\ pc' = "eprized") =>
       LET tiers == TiersOf(e_prizes, topk_e)
           threshold == tiers[Len0(tiers) - 1]
       IN \A i \in DOMAIN e_prizes :
            RLess(e_prizes[i], threshold) => e_prizes'[i] = Zero]_vars

\* C6 as stated: once assigned, no node prize and no edge prize is negative
C6_Claim ==
  /\ pc \in {"nprized", "esim", "eprized", "reduced", "solved"} =>
       \A i \in DOMAIN n_prizes : n_prizes[i] >= 0
  /\ pc \in {"eprized", "reduced", "solved"} =>
       \A i \in DOMAIN e_prizes : RLeq(Zero, e_prizes[i])

\* C11 as stated: when the embedder returned no row for the nodes or for the edges
\* of a graph whose tables are not empty, the extraction does not raise: it ends
\* with a returned subgraph
C11_Claim ==
  (pc = "done" /\ ~IsDegenerate /\ (x_rows = 0 \/ edge_attr_rows = 0)) => out.returned

\* the collaborators whose import failed
Collaborators == {"pcst_fast", "transformers", "datasets", "pandas"}
MissingNames ==
  {n \in Collaborators :
     \/ (n = "pcst_fast" /\ ~WITH_PCST)
     \/ (n = "transformers" /\ ~WITH_TRANSFORMERS)
     \/ (n = "datasets" /\ ~WITH_DATASETS)
     \/ (n = "pandas" /\ ~WITH_PANDAS)}
Occurrences(n, message) == Cardinality({i \in DOMAIN message : message[i] = n})

\* C12: with a collaborator missing, __init__ goes to the raise and to nothing else,
\* the one message raised names every missing collaborator once and no other, and
\* the positions from super().__init__ on (processing, loading) are reached only
\* with nothing missing and nothing raised
C12_MissingImports ==
  /\ (pc = "check_missing" /\ MissingNames # {}) => missing_imports
  /\ pc = "raised" =>
       /\ MissingNames # {}
       /\ \A n \in Collaborators :
            Occurrences(n, error_out) = IF n \in MissingNames THEN 1 ELSE 0
  /\ pc \in {"super_init", "load", "constructed"} =>
       /\ MissingNames = {}
       /\ error_out = NoMessage

\* several collaborators are missing and the error was raised
C12_Witness == pc = "raised" /\ Cardinality(MissingNames) >= 2

\* the entity strings of the triples consumed so far, heads and tails in input order,
\* and the ids their edge rows carry
Endpoint(p) == graph[p \div 2][IF p % 2 = 0 THEN 1 ELSE 3]
EndpointId(p) == IF p % 2 = 0 THEN raw_edges[p \div 2].src ELSE raw_edges[p \div 2].dst
EndpointPositions == Range0(2 * Len0(graph))
\* equal after lower-casing
CaseClasses == {{"Paris", "paris"}, {"France", "FRANCE"}}
SameLowerCased(a, b) == \E C \in CaseClasses : a \in C /\ b \in C

\* C13: after any sequence of triples the ids handed out are 0 .. len(raw_nodes) - 1,
\* a string seen for the first time gets the number of distinct strings (up to
\* case) seen before it, two strings have the same id iff they are equal after
\* lower-casing, and there is one edge row per triple, in input order, with the
\* triple's relation and the ids of its head and tail; the tables and the graph
\* built from them carry the same rows and num_nodes is the number of ids
C13_GraphBuilder ==
  pc \in {"triples", "tables"} =>
    /\ {EndpointId(p) : p \in EndpointPositions} = Range0(Len0(raw_nodes))
    /\ {raw_nodes[k].value : k \in DOMAIN raw_nodes} = Range0(Len0(raw_nodes))
    /\ \A p \in EndpointPositions :
         (\A q \in Range0(p) : ~SameLowerCased(Endpoint(q), Endpoint(p)))
           => EndpointId(p) = Cardinality({EndpointId(q) : q \in Range0(p)})
    /\ \A p, q \in EndpointPositions :
         EndpointId(p) = EndpointId(q) <=> SameLowerCased(Endpoint(p), Endpoint(q))
    /\ Len0(raw_edges) = Len0(graph)
    /\ \A k \in DOMAIN graph : raw_edges[k].edge_attr = graph[k][2]
    /\ pc = "tables" =>
         /\ textual_edges = raw_edges
         /\ num_nodes = Len0(raw_nodes)
         /\ \A k \in DOMAIN textual_nodes : textual_nodes[k].node_id = k
         /\ \A k \in DOMAIN graph :
              e_idx[k] = <<raw_edges[k].src, raw_edges[k].dst>>

\* the tables are built from two triples, the second a duplicate of the first up to
\* the case of its head
C13_Witness ==
  /\ pc = "tables"
  /\ Len0(graph) = 2
  /\ graph[0][1] # graph[1][1]
  /\ SameLowerCased(graph[0][1], graph[1][1])
  /\ graph[0][2] = graph[1][2]
  /\ graph[0][3] = graph[1][3]
  /\ textual_edges[0] = textual_edges[1]
  /\ num_nodes = 2

\* the graph of the triples (Paris, capital_of, France), (France, located_in, Europe):
\* Paris = 0, France = 1, Europe = 2, capital_of = edge 0, located_in = edge 1
ParisScenario ==
  /\ num_nodes = 3
  /\ e_idx = [k \in Range0(2) |-> <<k, k + 1>>]
  /\ topk = 1 /\ topk_e = 1 /\ cost_e = Rat(1, 2)

C15_Claim ==
  (Pruned /\ out.returned) =>
    /\ out.num_nodes = Len0(out.x)
    /\ \A id \in EdgeIndexIds : id < out.num_nodes
====
